---- MODULE Spec2Model ----
(***************************************************************************)
(* The intent coordination engine of syndicate-backend:                    *)
(*   - IntentProcessor (services/intent-processor.js): the event handlers  *)
(*     processLensChainIntent and monitorCrossChainOperation, the bridge   *)
(*     poll timers, start() and stop();                                    *)
(*   - the Store (models/intent.js, models/transaction.js): the intents    *)
(*     and transactions tables;                                            *)
(*   - the updateIntent endpoint of the intent controller;                 *)
(*   - the part of SyndicateIntentResolver.sol that the engine observes:   *)
(*     executedIntents and the two events it emits.                        *)
(* Every await of a handler is a step of its own, so that handlers         *)
(* interleave exactly where the JavaScript event loop lets them.           *)
(***************************************************************************)
EXTENDS Integers, Sequences, FiniteSets, Bags, TLC

\* ------------------------------------------------------------------ bounds
MaxDeliveries == 3     \* event deliveries to the engine's listeners, in total
MaxPolls      == 2     \* invocations of monitorCrossChainOperation
MaxErrors     == 1     \* failures of the bridge-status query
MaxFaults     == 1     \* failures of a Store call
MaxTickets    == 2     \* WinningTicketDetected events delivered
MaxRows       == 3     \* rows of table transactions written through the Store alone

\* --------------------------------------------------------- program constants
LENS_CHAIN_ID  == 232
BASE_CHAIN_ID  == 8453
JOIN_SYNDICATE == 1
BUY_TICKET     == 2
PollDelay      == 60000
BackoffDelay   == 300000

IntentIds == {"0xa", "0xb"}
TicketIds == {1, 2}
ZeroAddress == "0x0000000000000000000000000000000000000000"

IntentStatuses == {"PENDING", "EXECUTING", "COMPLETED", "FAILED"}
TxStatuses     == {"PENDING", "CONFIRMED", "FAILED"}
TxTypes        == {"APPROVAL", "INTENT_SUBMISSION", "BRIDGE", "TICKET_PURCHASE"}
EventNames     == <<"IntentSubmitted", "CrossChainOperationInitiated", "WinningTicketDetected">>

\* The IntentDefinition each intentId is the hash of: "0xa" buys a ticket on
\* Base from Lens (cross-chain), "0xb" names Lens as source and destination.
\* amount is a uint256, written here in limbs of three decimal digits, most
\* significant first: 100000000000000050007 and 100000000000000000000.
definition ==
  [id \in IntentIds |->
     [intentType         |-> BUY_TICKET,
      amount             |-> IF id = "0xa" THEN <<100, 0, 0, 0, 0, 50, 7>>
                                           ELSE <<100, 0, 0, 0, 0, 0, 0>>,
      sourceChainId      |-> LENS_CHAIN_ID,
      destinationChainId |-> IF id = "0xa" THEN BASE_CHAIN_ID ELSE LENS_CHAIN_ID]]

VARIABLES
  executedIntents,  \* chain: SyndicateIntentResolver.executedIntents
  relayed,          \* bridge: the deposit of the intent has been relayed
  pending,          \* events emitted to a registered listener, not yet delivered
  isRunning,        \* IntentProcessor.isRunning
  activeListeners,  \* IntentProcessor.activeListeners
  procs,            \* bag of handler invocations suspended at an await
  timers,           \* bag of outstanding setTimeout callbacks
  intents,          \* Store: rows of table intents, in insertion order
  transactions,     \* Store: rows of table transactions, in insertion order
  delivered,        \* how many times each event was delivered to its listener
  budget,           \* counters that bound the model
  uncaught,         \* a rejected promise that no handler was attached to
  expired,          \* chain clock: block.timestamp is past the intent's deadline
  offchain,         \* the OffChainProcessor process: how it was launched, where it is
  resolveCalls,     \* resolveIntent calls submitted by manuallyResolveIntent
  response          \* authorization server: the last request and its answer

vars == <<executedIntents, relayed, pending, isRunning, activeListeners,
          procs, timers, intents, transactions, delivered, budget,
          uncaught, expired, offchain, resolveCalls, response>>

chainVars  == <<executedIntents, relayed>>
storeVars  == <<intents, transactions>>
engineVars == <<isRunning, activeListeners>>
hostVars   == <<uncaught, expired, offchain, resolveCalls, response>>

\* ------------------------------------------------------------------- Store
\* Table intents: intent_id is unique, so the table holds at most one row for
\* an intentId; a row's primary key is in one-to-one relation with its
\* intentId and the model names the row by it.
NoRow == [status |-> "-", amount |-> <<>>, sourceChainId |-> 0, destinationChainId |-> 0]
HasIntent(id) == intents[id] # NoRow

\* db.Intent.findOne({ where: { intentId } })
findOne(id) == intents[id]

\* A table intents without the unique index on intent_id.
IntentCreateFails_NotUnique(id) == FALSE

\* db.Intent.create: intent_id is unique, a second row with it is refused.
IntentCreateFails(id) == HasIntent(id)

\* intentDetails.amount.toString(): the decimal string of a bigint, a string
\* being the sequence of its digits. The first limb is written without
\* leading zeros, every other limb with its three digits.
Digits3(limb) == <<limb \div 100, (limb \div 10) % 10, limb % 10>>

RECURSIVE Padded(_)
Padded(limbs) ==
  IF limbs = <<>> THEN <<>> ELSE Digits3(Head(limbs)) \o Padded(Tail(limbs))

toString(limbs) ==
  LET first == Head(limbs)
      lead  == IF first >= 100 THEN Digits3(first)
               ELSE IF first >= 10 THEN <<first \div 10, first % 10>>
               ELSE <<first>>
  IN  lead \o Padded(Tail(limbs))

IntentCreate(id, def) ==
  [intents EXCEPT ![id] = [status             |-> "PENDING",
                           amount             |-> toString(def.amount),
                           sourceChainId      |-> def.sourceChainId,
                           destinationChainId |-> def.destinationChainId]]

\* instance.update({ status }): Sequelize saves only the attributes that differ
\* from the instance's own copy (snap); the UPDATE names the row by primary key.
InstanceUpdate(id, snap, status) ==
  IF snap = status THEN intents
  ELSE [intents EXCEPT ![id].status = status]

\* A table transactions without the foreign key on intent_id.
TransactionCreateFails_NoForeignKey(id) == FALSE

\* db.Transaction.create: intent_id references intents.id, a row that names
\* no Intent row is refused.
TransactionCreateFails(id) == ~HasIntent(id)

\* db.Transaction.create({ intentId: intent.id, chainId, type: "BRIDGE", status: "PENDING" })
TransactionCreate(id, chainId) ==
  Append(transactions, [intentId |-> id, chainId |-> chainId,
                        type |-> "BRIDGE", status |-> "PENDING"])

\* db.Transaction.update({ status: "CONFIRMED" }, { where: { intentId, type: "BRIDGE" } })
TransactionUpdate(id) ==
  [t \in 1..Len(transactions) |->
     IF transactions[t].intentId = id /\ transactions[t].type = "BRIDGE"
     THEN [transactions[t] EXCEPT !.status = "CONFIRMED"]
     ELSE transactions[t]]

\* ---------------------------------------------------------------- helpers
Retire(p)       == procs (-) SetToBag({p})
Move(p, q)      == (procs (-) SetToBag({p})) (+) SetToBag({q})
Spawn(q)        == procs (+) SetToBag({q})
Spend(counter)  == [budget EXCEPT ![counter] = @ + 1]
SpendN(counter, n) == [budget EXCEPT ![counter] = @ + n]
Event(name, id) == [name |-> name, intentId |-> id]
Events          == { Event(n, id) : n \in {"IntentSubmitted", "CrossChainOperationInitiated"},
                                    id \in IntentIds }
RECURSIVE Sum(_, _)
Sum(f, S) == IF S = {} THEN 0
             ELSE LET x == CHOOSE y \in S : TRUE IN f[x] + Sum(f, S \ {x})
Deliveries      == Sum(delivered, Events)
Listening(name) ==
  \/ \E k \in 1..Len(activeListeners) : activeListeners[k] = name
  \/ offchain.phase = "listening"

\* The handlers registered on the contracts for an event: start() pushes the
\* event's name on activeListeners after each on() that returned, and stop()
\* removes the handlers of every name in activeListeners before it empties it,
\* so an event has as many handlers as activeListeners has entries of its name.
Registered(name) ==
  Cardinality({k \in 1..Len(activeListeners) : activeListeners[k] = name})

\* An emitted event invokes every handler registered for it.
SpawnAll(q, name) ==
  procs (+) [x \in {q} |-> Registered(name)]

\* An event emitted by a contract reaches a processor only through a listener
\* that is registered when it is emitted: one of IntentProcessor.start(), or
\* one of OffChainProcessor.startListening().
Emit(name, id) ==
  IF Listening(name) THEN pending \cup {Event(name, id)} ELSE pending

\* ------------------------------------------- SyndicateIntentResolver.sol
canExecuteImmediately(def) ==
  def.intentType = JOIN_SYNDICATE /\ def.sourceChainId = LENS_CHAIN_ID

\* submitIntent: refused past the intent's deadline and once the intent is
\* executed; an intent that can be
\* executed immediately calls executeIntent from inside submitIntent, both
\* nonReentrant, so that call reverts and with it the whole submission.
submitIntent(id) ==
  /\ ~expired[id]
  /\ ~executedIntents[id]
  /\ definition[id].intentType \in {JOIN_SYNDICATE, BUY_TICKET}
  /\ ~canExecuteImmediately(definition[id])
  /\ pending' = Emit("IntentSubmitted", id)
  /\ UNCHANGED <<hostVars, chainVars, engineVars, procs, timers, storeVars, delivered, budget>>

\* A public executeIntent without the intentNotExecuted modifier.
executeIntent_Replay(id, depositOk) ==
  /\ executedIntents' = [executedIntents EXCEPT ![id] = TRUE]
  /\ IF /\ definition[id].intentType = BUY_TICKET
        /\ definition[id].sourceChainId = LENS_CHAIN_ID
        /\ definition[id].destinationChainId = BASE_CHAIN_ID
        /\ depositOk
     THEN /\ pending' = Emit("CrossChainOperationInitiated", id)
          /\ relayed' = [relayed EXCEPT ![id] = "PENDING"]
     ELSE UNCHANGED <<pending, relayed>>
  /\ UNCHANGED <<hostVars, engineVars, procs, timers, storeVars, delivered, budget>>

\* executeIntent (public): a BUY_TICKET from Lens to Base deposits into the
\* bridge and, when the deposit succeeds, emits CrossChainOperationInitiated;
\* the intent is marked executed whatever the outcome.
executeIntent(id, depositOk) ==
  /\ ~executedIntents[id]
  /\ executedIntents' = [executedIntents EXCEPT ![id] = TRUE]
  /\ IF /\ definition[id].intentType = BUY_TICKET
        /\ definition[id].sourceChainId = LENS_CHAIN_ID
        /\ definition[id].destinationChainId = BASE_CHAIN_ID
        /\ depositOk
     THEN /\ pending' = Emit("CrossChainOperationInitiated", id)
          /\ relayed' = [relayed EXCEPT ![id] = "PENDING"]
     ELSE UNCHANGED <<pending, relayed>>
  /\ UNCHANGED <<hostVars, engineVars, procs, timers, storeVars, delivered, budget>>

\* nonReentrant (ReentrancyGuard): passes only when no nonReentrant function
\* of the contract is being executed.
nonReentrant(status) == status = "NOT_ENTERED"

\* resolveIntent(intentId, intent, user, signature), external: nonReentrant and
\* intentNotExecuted, requires a signature that is not empty, then calls
\* executeIntent, whose own nonReentrant finds the guard entered. What
\* executedIntents is after the call (a revert leaves it as it was).
resolveIntent(id, signatureLength) ==
  IF /\ nonReentrant("NOT_ENTERED")
     /\ ~executedIntents[id]
     /\ signatureLength > 0
     /\ nonReentrant("ENTERED")
  THEN [executedIntents EXCEPT ![id] = TRUE]
  ELSE executedIntents

\* The bridge relays a deposit (outside the engine's control).
Relay(id) ==
  /\ relayed[id] = "PENDING"
  /\ relayed' = [relayed EXCEPT ![id] = "RELAYED"]
  /\ UNCHANGED <<hostVars, executedIntents, pending, engineVars, procs, timers,
                 storeVars, delivered, budget>>

\* ------------------------------------------------- IntentProcessor lifecycle
\* start(): returns at once when the processor is running; otherwise sets
\* isRunning and registers the three listeners.
start ==
  /\ ~isRunning
  /\ isRunning' = TRUE
  /\ activeListeners' = activeListeners \o EventNames
  /\ UNCHANGED <<hostVars, chainVars, pending, procs, timers, storeVars, delivered, budget>>

\* start() with the k-th on() throwing: the listeners before it are registered
\* and pushed, the catch resets isRunning and rethrows.
startFails(k) ==
  /\ ~isRunning
  /\ budget.faults < MaxFaults
  /\ budget' = Spend("faults")
  /\ isRunning' = FALSE
  /\ activeListeners' = activeListeners \o SubSeq(EventNames, 1, k - 1)
  /\ UNCHANGED <<hostVars, chainVars, pending, procs, timers, storeVars, delivered>>

\* stop(): returns at once when the processor is not running; otherwise
\* removes the handlers of every name in activeListeners and empties it.
stop ==
  /\ isRunning
  /\ activeListeners' = <<>>
  /\ isRunning' = FALSE
  /\ pending' = {}
  /\ UNCHANGED <<hostVars, chainVars, procs, timers, storeVars, delivered, budget>>

\* The process is restarted: a new IntentProcessor is constructed, everything
\* the old process held in memory (suspended handlers, timers, listeners) is gone.
Restart ==
  /\ isRunning' = FALSE
  /\ activeListeners' = <<>>
  /\ procs' = EmptyBag
  /\ timers' = EmptyBag
  /\ pending' = {}
  /\ UNCHANGED <<hostVars, chainVars, storeVars, delivered, budget>>

\* ------------------------------------------------------ event delivery
\* A handler invocation suspended at an await: the handler, its intentId, the
\* await it is suspended at (pc), the status its Intent instance holds (snap),
\* and whether its caller awaits it inside a try/catch (caught): the listener
\* callbacks of start() do, the setTimeout callbacks do not.
ProcessProc(id) == [op |-> "processLensChainIntent", intentId |-> id,
                    pc |-> "executedIntents", snap |-> "-", caught |-> TRUE]
MonitorProc(id, caught) ==
  [op |-> "monitorCrossChainOperation", intentId |-> id,
   pc |-> "findOne", snap |-> "-", caught |-> caught]

\* The listener callbacks of start(): each delivery starts one handler
\* invocation. A delivery may leave the event in the stream (the node reports
\* it again: delivery is at least once).
OnIntentSubmitted(e, again) ==
  /\ e \in pending /\ e.name = "IntentSubmitted"
  /\ Registered(e.name) > 0
  /\ Deliveries < MaxDeliveries
  /\ delivered' = [delivered EXCEPT ![e] = @ + 1]
  /\ pending' = IF again THEN pending ELSE pending \ {e}
  /\ procs' = SpawnAll(ProcessProc(e.intentId), e.name)
  /\ UNCHANGED <<hostVars, chainVars, engineVars, timers, storeVars, budget>>

OnCrossChainOperationInitiated(e, again) ==
  /\ e \in pending /\ e.name = "CrossChainOperationInitiated"
  /\ Registered(e.name) > 0
  /\ Deliveries < MaxDeliveries
  /\ budget.polls + Registered(e.name) <= MaxPolls
  /\ delivered' = [delivered EXCEPT ![e] = @ + 1]
  /\ budget' = SpendN("polls", Registered(e.name))
  /\ pending' = IF again THEN pending ELSE pending \ {e}
  /\ procs' = SpawnAll(MonitorProc(e.intentId, TRUE), e.name)
  /\ UNCHANGED <<hostVars, chainVars, engineVars, timers, storeVars>>

\* ------------------------------------------------ processLensChainIntent
\* await this.intentResolver.executedIntents(intentId): an executed intent is
\* logged and skipped. Otherwise await this.intentResolver.getIntent(intentId)
\* follows; it reads the intent's definition, which never changes, and is taken
\* in the same step.
ProcessExecutedIntents(p) ==
  /\ p.op = "processLensChainIntent" /\ p.pc = "executedIntents"
  /\ IF executedIntents[p.intentId]
     THEN /\ procs' = Retire(p)
     ELSE /\ procs' = Move(p, [p EXCEPT !.pc = "create"])
  /\ UNCHANGED <<hostVars, chainVars, pending, engineVars, timers, storeVars, delivered, budget>>

\* await db.Intent.create({..., status: "PENDING"}); a duplicate intentId throws
\* and the invocation ends in the listener's catch. A same-chain intent is done
\* here, a cross-chain one goes on to the update.
ProcessCreate(p) ==
  /\ p.op = "processLensChainIntent" /\ p.pc = "create"
  /\ IF IntentCreateFails(p.intentId)
     THEN /\ procs' = Retire(p)
          /\ UNCHANGED intents
     ELSE /\ intents' = IntentCreate(p.intentId, definition[p.intentId])
          /\ IF definition[p.intentId].sourceChainId # definition[p.intentId].destinationChainId
             THEN /\ procs' = Move(p, [p EXCEPT !.pc = "update", !.snap = "PENDING"])
             ELSE /\ procs' = Retire(p)
  /\ UNCHANGED <<hostVars, chainVars, pending, engineVars, timers, transactions, delivered, budget>>

\* A processLensChainIntent that leaves a cross-chain intent as it persisted it.
ProcessUpdate_Skip(p) ==
  /\ p.op = "processLensChainIntent" /\ p.pc = "update"
  /\ procs' = Retire(p)
  /\ UNCHANGED <<hostVars, chainVars, pending, engineVars, timers, storeVars, delivered, budget>>

\* await dbIntent.update({ status: "EXECUTING" })
ProcessUpdate(p) ==
  /\ p.op = "processLensChainIntent" /\ p.pc = "update"
  /\ intents' = InstanceUpdate(p.intentId, p.snap, "EXECUTING")
  /\ procs' = Retire(p)
  /\ UNCHANGED <<hostVars, chainVars, pending, engineVars, timers, transactions, delivered, budget>>

\* -------------------------------------------- monitorCrossChainOperation
\* setTimeout(() => this.monitorCrossChainOperation(intentId, ...), delay)
Timer(id, delay) == [intentId |-> id, delay |-> delay]
setTimeout(id, delay) == timers (+) SetToBag({Timer(id, delay)})

\* A monitorCrossChainOperation that goes on to record a BRIDGE Transaction
\* although it found no Intent row.
MonitorFindOne_Fabricate(p) ==
  /\ p.op = "monitorCrossChainOperation" /\ p.pc = "findOne"
  /\ procs' = Move(p, [p EXCEPT !.pc = "createTransaction",
                                !.snap = findOne(p.intentId).status])
  /\ UNCHANGED <<hostVars, chainVars, pending, engineVars, timers, storeVars, delivered, budget>>

\* await db.Intent.findOne({ where: { intentId } }); no row: log and return.
MonitorFindOne(p) ==
  /\ p.op = "monitorCrossChainOperation" /\ p.pc = "findOne"
  /\ IF findOne(p.intentId) = NoRow
     THEN /\ procs' = Retire(p)
     ELSE /\ procs' = Move(p, [p EXCEPT !.pc = "createTransaction",
                                        !.snap = findOne(p.intentId).status])
  /\ UNCHANGED <<hostVars, chainVars, pending, engineVars, timers, storeVars, delivered, budget>>

\* await db.Transaction.create({ intentId: intent.id, type: "BRIDGE", status: "PENDING" })
MonitorCreateTransaction(p) ==
  /\ p.op = "monitorCrossChainOperation" /\ p.pc = "createTransaction"
  /\ transactions' = TransactionCreate(p.intentId, LENS_CHAIN_ID)
  /\ procs' = Move(p, [p EXCEPT !.pc = "getDepositStatus"])
  /\ UNCHANGED <<hostVars, chainVars, pending, engineVars, timers, intents, delivered, budget>>

\* A monitorCrossChainOperation that gives up when the status query throws.
MonitorGetDepositStatus_GiveUp(p, throws) ==
  /\ p.op = "monitorCrossChainOperation" /\ p.pc = "getDepositStatus"
  /\ IF throws
     THEN /\ budget.errors < MaxErrors
          /\ budget' = Spend("errors")
          /\ procs' = Retire(p)
          /\ UNCHANGED timers
     ELSE IF relayed[p.intentId] = "RELAYED"
     THEN /\ procs' = Move(p, [p EXCEPT !.pc = "confirm"])
          /\ UNCHANGED <<timers, budget>>
     ELSE /\ procs' = Retire(p)
          /\ timers' = setTimeout(p.intentId, PollDelay)
          /\ UNCHANGED budget
  /\ UNCHANGED <<hostVars, chainVars, pending, engineVars, storeVars, delivered>>

\* A monitorCrossChainOperation whose poll delay grows with the polls made.
MonitorGetDepositStatus_Growing(p, throws) ==
  /\ p.op = "monitorCrossChainOperation" /\ p.pc = "getDepositStatus"
  /\ IF throws
     THEN /\ budget.errors < MaxErrors
          /\ budget' = Spend("errors")
          /\ procs' = Retire(p)
          /\ timers' = setTimeout(p.intentId, BackoffDelay)
     ELSE IF relayed[p.intentId] = "RELAYED"
     THEN /\ procs' = Move(p, [p EXCEPT !.pc = "confirm"])
          /\ UNCHANGED <<timers, budget>>
     ELSE /\ procs' = Retire(p)
          /\ timers' = setTimeout(p.intentId, PollDelay * budget.polls)
          /\ UNCHANGED budget
  /\ UNCHANGED <<hostVars, chainVars, pending, engineVars, storeVars, delivered>>

\* A monitorCrossChainOperation with a cap: from its second poll on, an intent
\* whose deposit is not relayed is set to FAILED and polled no more.
MonitorGetDepositStatus_Capped(p, throws) ==
  /\ p.op = "monitorCrossChainOperation" /\ p.pc = "getDepositStatus"
  /\ IF throws
     THEN /\ budget.errors < MaxErrors
          /\ budget' = Spend("errors")
          /\ procs' = Retire(p)
          /\ timers' = setTimeout(p.intentId, BackoffDelay)
          /\ UNCHANGED intents
     ELSE IF relayed[p.intentId] = "RELAYED"
     THEN /\ procs' = Move(p, [p EXCEPT !.pc = "confirm"])
          /\ UNCHANGED <<timers, budget, intents>>
     ELSE /\ procs' = Retire(p)
          /\ IF budget.polls >= 2
             THEN /\ intents' = InstanceUpdate(p.intentId, p.snap, "FAILED")
                  /\ UNCHANGED timers
             ELSE /\ timers' = setTimeout(p.intentId, PollDelay)
                  /\ UNCHANGED intents
          /\ UNCHANGED budget
  /\ UNCHANGED <<hostVars, chainVars, pending, engineVars, transactions, delivered>>

\* A monitorCrossChainOperation that fails the intent when the query throws.
MonitorGetDepositStatus_FailOnError(p, throws) ==
  /\ p.op = "monitorCrossChainOperation" /\ p.pc = "getDepositStatus"
  /\ IF throws
     THEN /\ budget.errors < MaxErrors
          /\ budget' = Spend("errors")
          /\ procs' = Retire(p)
          /\ intents' = InstanceUpdate(p.intentId, p.snap, "FAILED")
          /\ UNCHANGED timers
     ELSE IF relayed[p.intentId] = "RELAYED"
     THEN /\ procs' = Move(p, [p EXCEPT !.pc = "confirm"])
          /\ UNCHANGED <<timers, budget, intents>>
     ELSE /\ procs' = Retire(p)
          /\ timers' = setTimeout(p.intentId, PollDelay)
          /\ UNCHANGED <<budget, intents>>
  /\ UNCHANGED <<hostVars, chainVars, pending, engineVars, transactions, delivered>>

\* A monitorCrossChainOperation that retries a failed query as soon as an
\* unfinished one.
MonitorGetDepositStatus_NoBackoff(p, throws) ==
  /\ p.op = "monitorCrossChainOperation" /\ p.pc = "getDepositStatus"
  /\ IF throws
     THEN /\ budget.errors < MaxErrors
          /\ budget' = Spend("errors")
          /\ procs' = Retire(p)
          /\ timers' = setTimeout(p.intentId, PollDelay)
     ELSE IF relayed[p.intentId] = "RELAYED"
     THEN /\ procs' = Move(p, [p EXCEPT !.pc = "confirm"])
          /\ UNCHANGED <<timers, budget>>
     ELSE /\ procs' = Retire(p)
          /\ timers' = setTimeout(p.intentId, PollDelay)
          /\ UNCHANGED budget
  /\ UNCHANGED <<hostVars, chainVars, pending, engineVars, storeVars, delivered>>

\* await this.across.getDepositStatus(intentId): RELAYED goes on to the two
\* Store updates, any other answer schedules the next poll after 60 s, a query
\* that throws schedules it after 300 s.
MonitorGetDepositStatus(p, throws) ==
  /\ p.op = "monitorCrossChainOperation" /\ p.pc = "getDepositStatus"
  /\ IF throws
     THEN /\ budget.errors < MaxErrors
          /\ budget' = Spend("errors")
          /\ procs' = Retire(p)
          /\ timers' = setTimeout(p.intentId, BackoffDelay)
     ELSE IF relayed[p.intentId] = "RELAYED"
     THEN /\ procs' = Move(p, [p EXCEPT !.pc = "confirm"])
          /\ UNCHANGED <<timers, budget>>
     ELSE /\ procs' = Retire(p)
          /\ timers' = setTimeout(p.intentId, PollDelay)
          /\ UNCHANGED budget
  /\ UNCHANGED <<hostVars, chainVars, pending, engineVars, storeVars, delivered>>

\* await db.Transaction.update({ status: "CONFIRMED" }, { where: { intentId, type: "BRIDGE" } })
MonitorConfirm(p) ==
  /\ p.op = "monitorCrossChainOperation" /\ p.pc = "confirm"
  /\ transactions' = TransactionUpdate(p.intentId)
  /\ procs' = Move(p, [p EXCEPT !.pc = "complete"])
  /\ UNCHANGED <<hostVars, chainVars, pending, engineVars, timers, intents, delivered, budget>>

\* await intent.update({ status: "COMPLETED" })
MonitorComplete(p) ==
  /\ p.op = "monitorCrossChainOperation" /\ p.pc = "complete"
  /\ intents' = InstanceUpdate(p.intentId, p.snap, "COMPLETED")
  /\ procs' = Retire(p)
  /\ UNCHANGED <<hostVars, chainVars, pending, engineVars, timers, transactions, delivered, budget>>

\* A timer set by monitorCrossChainOperation fires: the callback invokes
\* monitorCrossChainOperation again with the same arguments.
TimerFires(t) ==
  /\ BagIn(t, timers)
  /\ budget.polls < MaxPolls
  /\ budget' = Spend("polls")
  /\ timers' = timers (-) SetToBag({t})
  /\ procs' = Spawn(MonitorProc(t.intentId, FALSE))
  /\ UNCHANGED <<hostVars, chainVars, pending, engineVars, storeVars, delivered>>

\* ------------------------------------------------- processWinningTicket
WinningProc(ticketId) == [op |-> "processWinningTicket", ticketId |-> ticketId,
                          pc |-> "ticketToSyndicate", caught |-> TRUE]

\* The WinningTicketDetected listener of start(): logs ticketId and amount and
\* awaits processWinningTicket inside try/catch. The event comes from the
\* resolver on Base, with any ticketId and amount.
OnWinningTicketDetected(ticketId, amount) ==
  /\ \E k \in 1..Len(activeListeners) : activeListeners[k] = "WinningTicketDetected"
  /\ budget.tickets < MaxTickets
  /\ budget' = Spend("tickets")
  /\ procs' = SpawnAll(WinningProc(ticketId), "WinningTicketDetected")
  /\ UNCHANGED <<hostVars, chainVars, pending, engineVars, timers, storeVars, delivered>>

\* A processWinningTicket that records a Transaction for a ticket of a syndicate.
ProcessWinningTicket_Record(p, syndicateAddress, throws) ==
  /\ p.op = "processWinningTicket" /\ p.pc = "ticketToSyndicate"
  /\ procs' = Retire(p)
  /\ transactions' = IF throws \/ syndicateAddress = ZeroAddress THEN transactions
                     ELSE Append(transactions, [intentId |-> "0xa", chainId |-> BASE_CHAIN_ID,
                                                type |-> "TICKET_PURCHASE", status |-> "PENDING"])
  /\ UNCHANGED <<hostVars, chainVars, pending, engineVars, timers, intents, delivered, budget>>

\* await this.ticketRegistry.ticketToSyndicate(ticketId): the zero address is
\* logged as "no syndicate", any other address as processed; a call that throws
\* is logged and rethrown to the listener's catch. Nothing else is done.
ProcessWinningTicket(p, syndicateAddress, throws) ==
  /\ p.op = "processWinningTicket" /\ p.pc = "ticketToSyndicate"
  /\ procs' = Retire(p)
  /\ UNCHANGED <<hostVars, chainVars, pending, engineVars, timers, storeVars, delivered, budget>>

\* ------------------------------------------------- failing Store calls
\* A Store call of monitorCrossChainOperation outside its inner try rejects
\* (findOne, Transaction.create): the outer catch logs and rethrows. A listener
\* callback awaits the invocation inside try/catch; a setTimeout callback
\* returns the promise to nobody, so the rejection is unhandled, and the
\* runtime either only reports it or terminates the process (exits).
MonitorStoreFails(p, exits) ==
  /\ p.op = "monitorCrossChainOperation" /\ p.pc \in {"findOne", "createTransaction"}
  /\ budget.faults < MaxFaults
  /\ budget' = Spend("faults")
  /\ uncaught' = (uncaught \/ ~p.caught)
  /\ IF ~p.caught /\ exits
     THEN /\ isRunning' = FALSE
          /\ activeListeners' = <<>>
          /\ procs' = EmptyBag
          /\ timers' = EmptyBag
          /\ pending' = {}
     ELSE /\ procs' = Retire(p)
          /\ UNCHANGED <<engineVars, timers, pending>>
  /\ UNCHANGED <<response, expired, offchain, resolveCalls, chainVars, storeVars, delivered>>

\* A Store call inside the inner try rejects (Transaction.update,
\* intent.update): the inner catch logs and schedules the poll after 300 s.
MonitorUpdateFails(p) ==
  /\ p.op = "monitorCrossChainOperation" /\ p.pc \in {"confirm", "complete"}
  /\ budget.faults < MaxFaults
  /\ budget' = Spend("faults")
  /\ procs' = Retire(p)
  /\ timers' = setTimeout(p.intentId, BackoffDelay)
  /\ UNCHANGED <<hostVars, chainVars, pending, engineVars, storeVars, delivered>>

\* A call of processLensChainIntent rejects: its catch logs and rethrows, the
\* listener callback that awaits it catches and logs.
ProcessFails(p) ==
  /\ p.op = "processLensChainIntent"
  /\ budget.faults < MaxFaults
  /\ budget' = Spend("faults")
  /\ procs' = Retire(p)
  /\ UNCHANGED <<hostVars, chainVars, pending, engineVars, timers, storeVars, delivered>>

\* ------------------------------------------------------ OffChainProcessor
\* The environment variables the start script requires, and those the
\* configuration of OffChainProcessor.js reads.
RequiredEnvVars ==
  {"PRIVATE_KEY", "LENS_RPC_URL", "BASE_RPC_URL", "LENS_INTENT_RESOLVER",
   "BASE_INTENT_RESOLVER", "CROSS_CHAIN_RESOLVER", "TICKET_REGISTRY", "DATABASE_URL"}
ProcessorEnvVars == RequiredEnvVars \ {"DATABASE_URL"}

\* scripts/start-intent-processor: any required variable missing: exit(1);
\* otherwise main() constructs the processor and awaits startListening().
startIntentProcessor(env) ==
  /\ offchain.phase = "off"
  /\ offchain' = [phase    |-> IF RequiredEnvVars \ env # {} THEN "exited" ELSE "listening",
                  entry    |-> "start-intent-processor",
                  complete |-> RequiredEnvVars \subseteq env]
  /\ UNCHANGED <<response, uncaught, expired, resolveCalls, chainVars, pending, engineVars, procs,
                 timers, storeVars, delivered, budget>>

\* node OffChainProcessor.js: a missing variable is replaced by a placeholder
\* and the processor is constructed with it. The placeholder private key is
\* not a key, ethers.Wallet throws on it; what the ethers constructors do with
\* a placeholder URL or address is the library's choice (throws).
runOffChainProcessor(env, throws) ==
  /\ offchain.phase = "off"
  /\ throws => ProcessorEnvVars \ env # {}
  /\ "PRIVATE_KEY" \notin env => throws
  /\ offchain' = [phase    |-> IF throws THEN "exited" ELSE "listening",
                  entry    |-> "OffChainProcessor",
                  complete |-> RequiredEnvVars \subseteq env]
  /\ UNCHANGED <<response, uncaught, expired, resolveCalls, chainVars, pending, engineVars, procs,
                 timers, storeVars, delivered, budget>>

\* SIGINT: processor.stop() and process.exit(0).
sigint ==
  /\ offchain.phase = "listening"
  /\ offchain' = [offchain EXCEPT !.phase = "exited"]
  /\ pending' = {}
  /\ procs' = EmptyBag
  /\ timers' = EmptyBag
  /\ UNCHANGED <<response, uncaught, expired, resolveCalls, chainVars, engineVars, storeVars,
                 delivered, budget>>

OffProcessProc(id) == [op |-> "OffChainProcessor.processLensChainIntent", intentId |-> id,
                       pc |-> "executedIntents", snap |-> "-", caught |-> TRUE]

\* The IntentSubmitted listener of startListening().
OffOnIntentSubmitted(e, again) ==
  /\ offchain.phase = "listening"
  /\ e \in pending /\ e.name = "IntentSubmitted"
  /\ Deliveries < MaxDeliveries
  /\ delivered' = [delivered EXCEPT ![e] = @ + 1]
  /\ pending' = IF again THEN pending ELSE pending \ {e}
  /\ procs' = Spawn(OffProcessProc(e.intentId))
  /\ UNCHANGED <<hostVars, chainVars, engineVars, timers, storeVars, budget>>

\* processLensChainIntent: await executedIntents(intentId), then one of two
\* console.log lines; nothing else.
OffProcessExecutedIntents(p) ==
  /\ p.op = "OffChainProcessor.processLensChainIntent" /\ p.pc = "executedIntents"
  /\ procs' = Retire(p)
  /\ UNCHANGED <<hostVars, chainVars, pending, engineVars, timers, storeVars, delivered, budget>>

\* monitorCrossChainOperation has no await: it draws a status at random and,
\* unless that is "completed", sets the 60 s timer that calls it again.
OffMonitor(id, depositStatus) ==
  /\ budget.polls < MaxPolls
  /\ budget' = Spend("polls")
  /\ timers' = IF depositStatus = "completed" THEN timers ELSE setTimeout(id, PollDelay)

\* The CrossChainOperationInitiated listener of startListening().
OffOnCrossChainOperationInitiated(e, again, depositStatus) ==
  /\ offchain.phase = "listening"
  /\ e \in pending /\ e.name = "CrossChainOperationInitiated"
  /\ Deliveries < MaxDeliveries
  /\ delivered' = [delivered EXCEPT ![e] = @ + 1]
  /\ pending' = IF again THEN pending ELSE pending \ {e}
  /\ OffMonitor(e.intentId, depositStatus)
  /\ UNCHANGED <<hostVars, chainVars, engineVars, procs, storeVars>>

OffTimerFires(t, depositStatus) ==
  /\ offchain.phase = "listening"
  /\ BagIn(t, timers)
  /\ budget.polls < MaxPolls
  /\ budget' = Spend("polls")
  /\ timers' = IF depositStatus = "completed" THEN timers (-) SetToBag({t})
               ELSE (timers (-) SetToBag({t})) (+) SetToBag({Timer(t.intentId, PollDelay)})
  /\ UNCHANGED <<hostVars, chainVars, pending, engineVars, procs, storeVars, delivered>>

\* wallet.signMessage returns a signature of 65 bytes.
SignatureLength == 65

\* manuallyResolveIntent: signs the intent and calls resolveIntent; it reads
\* nothing from the chain before. resolveIntent is nonReentrant and calls
\* executeIntent, nonReentrant too, so the contract reverts the call.
manuallyResolveIntent(id) ==
  /\ offchain.phase = "listening"
  /\ resolveCalls' = resolveCalls \cup {[intentId |-> id, executed |-> executedIntents[id]]}
  /\ executedIntents' = resolveIntent(id, SignatureLength)
  /\ UNCHANGED <<response, uncaught, expired, offchain, relayed, pending, engineVars, procs,
                 timers, storeVars, delivered, budget>>

\* ------------------------------------------ authorization server (index.js)
\* A JSON value of a request body: its JavaScript type and its text.
\* "undefined" stands for a field the body does not have.
Undefined == [t |-> "undefined", v |-> "-"]
AnAddress == [t |-> "string", v |-> "0xA11ce"]
JsonValues ==
  {Undefined, [t |-> "number", v |-> "0"], [t |-> "string", v |-> "7"], AnAddress}
requiredFields == {"deadline", "nonce", "operation", "account", "validator"}
Bodies == [requiredFields -> JsonValues]

\* !req.body[field]: undefined, the number 0 and the empty string are falsy.
Falsy(x) ==
  \/ x.t = "undefined"
  \/ x.t = "number" /\ x.v = "0"
  \/ x.t = "string" /\ x.v = ""
missingFields(body) == { field \in requiredFields : Falsy(body[field]) }

\* The secret the server was started with, and what a caller may put in the path.
SHARED_SECRET == "placeholder_for_testing_only"
PathSecrets == {SHARED_SECRET, "placeholder_for_testing_onlx", "undefined"}

\* A server that lets every path secret through.
Unauthorized_Open(sharedSecret) == FALSE

\* sharedSecret !== SHARED_SECRET
Unauthorized(sharedSecret) == sharedSecret # SHARED_SECRET

\* The SourceStamp that is signed with the server's key; checksumAddress
\* accepts an address only.
NoSignature == [originalMsgSender |-> "-", validator |-> "-", nonce |-> "-", deadline |-> "-"]
SourceStamp(body) ==
  [originalMsgSender |-> body["account"].v, validator |-> body["validator"].v,
   nonce |-> body["nonce"].v, deadline |-> body["deadline"].v]
IsAddress(x) == x = AnAddress

\* What is kept of a request and its answer: the server, the path secret, the
\* fields the body did not have, and the answer's status, allowed and signature.
Answer(impl, sharedSecret, body, status, allowed, signature) ==
  [impl |-> impl, sharedSecret |-> sharedSecret,
   absent |-> { field \in requiredFields : body[field] = Undefined },
   status |-> status, allowed |-> allowed, signature |-> signature]
NoResponse ==
  Answer("-", "-", [field \in requiredFields |-> Undefined], 0, FALSE, NoSignature)

\* What both servers do with POST /:sharedSecret/verify-operation: 401 for a
\* wrong secret, allowed: false (with missingStatus) for a missing field,
\* otherwise the signature; a signing that throws leaves the request
\* unanswered (status 0).
Verify(impl, sharedSecret, body, missingStatus, throws) ==
  IF Unauthorized(sharedSecret)
  THEN Answer(impl, sharedSecret, body, 401, FALSE, NoSignature)
  ELSE IF missingFields(body) # {}
  THEN Answer(impl, sharedSecret, body, missingStatus, FALSE, NoSignature)
  ELSE IF throws
  THEN Answer(impl, sharedSecret, body, 0, FALSE, NoSignature)
  ELSE Answer(impl, sharedSecret, body, 200, TRUE, SourceStamp(body))

\* index.js: the missing-field answer is sent with status 200; the typed data
\* is built with checksumAddress(account) and checksumAddress(validator),
\* which throw on anything but an address.
verifyOperation(sharedSecret, body) ==
  /\ response' = Verify("index.js", sharedSecret, body, 200,
                        ~(IsAddress(body["account"]) /\ IsAddress(body["validator"])))
  /\ UNCHANGED <<uncaught, expired, offchain, resolveCalls, chainVars, pending, engineVars,
                 procs, timers, storeVars, delivered, budget>>

\* The server with the secret checked by a middleware and the signature made
\* by approver.signOperationApproval: the missing-field answer has status 400;
\* whether the signer throws on a body it cannot sign is the library's choice.
verifyOperationApprover(sharedSecret, body, throws) ==
  /\ throws => ~(IsAddress(body["account"]) /\ IsAddress(body["validator"]))
  /\ response' = Verify("approver", sharedSecret, body, 400, throws)
  /\ UNCHANGED <<uncaught, expired, offchain, resolveCalls, chainVars, pending, engineVars,
                 procs, timers, storeVars, delivered, budget>>

\* ---------------------------------------------- intent controller: getIntent
\* A response that turns the amount into a JavaScript number on its way out:
\* a double keeps 17 significant digits.
getIntent_Number(id) ==
  IF findOne(id) = NoRow THEN NoRow
  ELSE [findOne(id) EXCEPT !.amount = [i \in 1..Len(@) |-> IF i <= 17 THEN @[i] ELSE 0]]

\* GET /api/intents/:intentId: 404 when no row is found, otherwise the row's
\* columns as they were read, amount: intent.amount among them.
getIntent(id) ==
  IF findOne(id) = NoRow THEN NoRow
  ELSE findOne(id)

\* ----------------------------------------------------- the Store by itself
\* The two create operations of the Store, called with any intentId.
createIntent(id) ==
  /\ intents' = IF IntentCreateFails(id) THEN intents
                ELSE IntentCreate(id, definition[id])
  /\ UNCHANGED <<hostVars, chainVars, pending, engineVars, procs, timers, transactions,
                 delivered, budget>>

createTransaction(id, chainId) ==
  /\ Len(transactions) < MaxRows
  /\ transactions' = IF TransactionCreateFails(id) THEN transactions
                     ELSE TransactionCreate(id, chainId)
  /\ UNCHANGED <<hostVars, chainVars, pending, engineVars, procs, timers, intents,
                 delivered, budget>>

\* ------------------------------------------------------------ chain clock
\* block.timestamp passes the deadline of the intent.
DeadlinePasses(id) ==
  /\ ~expired[id]
  /\ expired' = [expired EXCEPT ![id] = TRUE]
  /\ UNCHANGED <<response, uncaught, offchain, resolveCalls, chainVars, pending, engineVars,
                 procs, timers, storeVars, delivered, budget>>

\* ------------------------------------------- intent controller: updateIntent
\* PUT /api/intents/:intentId { status }: an unknown status is answered 400, an
\* unknown intentId 404; otherwise the row found is updated to the status.
updateIntent(id, status) ==
  /\ intents' = IF status \notin IntentStatuses \/ findOne(id) = NoRow
                THEN intents
                ELSE InstanceUpdate(id, findOne(id).status, status)
  /\ UNCHANGED <<hostVars, chainVars, pending, engineVars, procs, timers, transactions,
                 delivered, budget>>

\* ------------------------------------------------ HTTP API: /api/intents
\* The Authorization header of a request, as the pieces split(" ") makes of
\* it; <<>> stands for a request without the header.
Authorizations ==
  { <<>>, <<"">>, <<"Bearer">>, <<"Bearer", SHARED_SECRET>>,
    <<"Bearer", "placeholder_for_testing_onlx">>, <<"Basic", SHARED_SECRET>>,
    <<"bearer", SHARED_SECRET>>, <<"Bearer", "", SHARED_SECRET>>,
    <<"Bearer", SHARED_SECRET, "x">> }

\* authHeader.startsWith("Bearer ")
StartsWithBearer(authHeader) == Len(authHeader) >= 2 /\ authHeader[1] = "Bearer"

\* A middleware that compares no token.
authenticate_AnyBearer(authHeader) ==
  IF authHeader = <<>> \/ ~StartsWithBearer(authHeader) THEN 401 ELSE 0

\* authenticate: 401 without the header or when it does not start with
\* "Bearer ", 401 when authHeader.split(" ")[1] is not SHARED_SECRET;
\* otherwise next() is called (0).
authenticate(authHeader) ==
  IF authHeader = <<>> \/ ~StartsWithBearer(authHeader) THEN 401
  ELSE IF authHeader[2] # SHARED_SECRET THEN 401
  ELSE 0

\* The body of POST /api/intents: complete, or without one required field,
\* or with an intentType of 0 or an empty amount.
intentFields == {"intentType", "syndicateAddress", "amount", "tokenAddress",
                 "sourceChainId", "destinationChainId", "deadline"}
CompleteBody == [field \in intentFields |-> [t |-> "string", v |-> "7"]]
IntentBodies ==
  {CompleteBody, [CompleteBody EXCEPT !["intentType"] = [t |-> "number", v |-> "0"]],
   [CompleteBody EXCEPT !["amount"] = [t |-> "string", v |-> ""]]} \cup
  { [CompleteBody EXCEPT ![field] = Undefined] : field \in intentFields }
falsyFields(body) == { field \in intentFields : Falsy(body[field]) }

\* What is kept of an API request and its answer: the handler that answered,
\* the Authorization header, the required fields the body lacked, the status,
\* and the intentId and status of the answer's body.
ApiAnswer(impl, authHeader, body, status, intentId, intentStatus) ==
  [impl |-> impl, authorization |-> authHeader, absent |-> falsyFields(body),
   status |-> status, intentId |-> intentId, intentStatus |-> intentStatus]

\* A controller that stores the row before it validates the body.
intentController_submitIntent_StoreFirst(authHeader, body, id, throws) ==
  /\ intents' = IF throws \/ IntentCreateFails(id) THEN intents
                ELSE IntentCreate(id, definition[id])
  /\ response' =
       IF falsyFields(body) # {} THEN ApiAnswer("submitIntent", authHeader, body, 400, "-", "-")
       ELSE IF throws \/ IntentCreateFails(id)
       THEN ApiAnswer("submitIntent", authHeader, body, 500, "-", "-")
       ELSE ApiAnswer("submitIntent", authHeader, body, 201, id, "PENDING")

\* intentController.submitIntent: 400 when a required field is falsy;
\* otherwise the intentId is the hash of the user, Date.now(), the syndicate,
\* the type and the amount, and db.Intent.create stores the row with status
\* PENDING, answered 201 with the row's intentId and status. Whatever throws
\* (the hashing, the Store) is answered 500.
intentController_submitIntent(authHeader, body, id, throws) ==
  IF falsyFields(body) # {}
  THEN /\ response' = ApiAnswer("submitIntent", authHeader, body, 400, "-", "-")
       /\ intents' = intents
  ELSE IF throws \/ IntentCreateFails(id)
  THEN /\ response' = ApiAnswer("submitIntent", authHeader, body, 500, "-", "-")
       /\ intents' = intents
  ELSE /\ intents' = IntentCreate(id, definition[id])
       /\ response' = ApiAnswer("submitIntent", authHeader, body, 201, id, "PENDING")

\* router.post("/", authenticate, intentController.submitIntent)
postIntents(authHeader, body, id, throws) ==
  /\ IF authenticate(authHeader) # 0
     THEN /\ response' = ApiAnswer("authenticate", authHeader, CompleteBody, 401, "-", "-")
          /\ intents' = intents
     ELSE intentController_submitIntent(authHeader, body, id, throws)
  /\ UNCHANGED <<uncaught, expired, offchain, resolveCalls, chainVars, pending, engineVars,
                 procs, timers, transactions, delivered, budget>>

\* adminOnly: answers 403 unless req.user.isAdmin.
adminOnly(isAdmin) == IF isAdmin THEN 0 ELSE 403

\* router.put("/:intentId", authenticate, adminOnly, intentController.updateIntent)
putIntent(authHeader, id, status, isAdmin) ==
  /\ IF authenticate(authHeader) # 0
     THEN /\ response' = ApiAnswer("authenticate", authHeader, CompleteBody, 401, "-", "-")
          /\ intents' = intents
     ELSE IF adminOnly(isAdmin) # 0
     THEN /\ response' = ApiAnswer("adminOnly", authHeader, CompleteBody, 403, "-", "-")
          /\ intents' = intents
     ELSE /\ intents' = IF status \notin IntentStatuses \/ findOne(id) = NoRow
                        THEN intents
                        ELSE InstanceUpdate(id, findOne(id).status, status)
          /\ response' =
               IF status \notin IntentStatuses
               THEN ApiAnswer("updateIntent", authHeader, CompleteBody, 400, "-", "-")
               ELSE IF findOne(id) = NoRow
               THEN ApiAnswer("updateIntent", authHeader, CompleteBody, 404, "-", "-")
               ELSE ApiAnswer("updateIntent", authHeader, CompleteBody, 200, id, status)
  /\ UNCHANGED <<uncaught, expired, offchain, resolveCalls, chainVars, pending, engineVars,
                 procs, timers, transactions, delivered, budget>>

\* ------------------------------------------------------------ specification
Init ==
  /\ executedIntents = [id \in IntentIds |-> FALSE]
  /\ relayed = [id \in IntentIds |-> "NONE"]
  /\ pending = {}
  /\ isRunning = FALSE
  /\ activeListeners = <<>>
  /\ procs = EmptyBag
  /\ timers = EmptyBag
  /\ intents = [id \in IntentIds |-> NoRow]
  /\ transactions = <<>>
  /\ delivered = [e \in Events |-> 0]
  /\ budget = [polls |-> 0, errors |-> 0, faults |-> 0, tickets |-> 0]
  /\ uncaught = FALSE
  /\ expired = [id \in IntentIds |-> FALSE]
  /\ offchain = [phase |-> "off", entry |-> "-", complete |-> FALSE]
  /\ resolveCalls = {}
  /\ response = NoResponse

Chain ==
  \/ \E id \in IntentIds : submitIntent(id)
  \/ \E id \in IntentIds, depositOk \in BOOLEAN : executeIntent(id, depositOk)
  \/ \E id \in IntentIds : Relay(id)

\* Delivery of a chain event to the listener registered for it.
Listeners ==
  \/ \E e \in pending, again \in BOOLEAN : OnIntentSubmitted(e, again)
  \/ \E e \in pending, again \in BOOLEAN : OnCrossChainOperationInitiated(e, again)

\* What the event loop runs: the continuation of a handler whose await has
\* settled, and the callback of a timer that is due.
Steps ==
  \/ \E p \in BagToSet(procs) : ProcessExecutedIntents(p)
  \/ \E p \in BagToSet(procs) : ProcessCreate(p)
  \/ \E p \in BagToSet(procs) : ProcessUpdate(p)
  \/ \E p \in BagToSet(procs) : MonitorFindOne(p)
  \/ \E p \in BagToSet(procs) : MonitorCreateTransaction(p)
  \/ \E p \in BagToSet(procs), throws \in BOOLEAN : MonitorGetDepositStatus(p, throws)
  \/ \E p \in BagToSet(procs) : MonitorConfirm(p)
  \/ \E p \in BagToSet(procs) : MonitorComplete(p)
  \/ \E t \in BagToSet(timers) : TimerFires(t)

Handlers == Listeners \/ Steps

Api ==
  \E id \in IntentIds, status \in IntentStatuses \cup {"UNKNOWN"} : updateIntent(id, status)

\* The engine in operation, the chain it listens to and the bridge it polls.
EngineNext == Chain \/ start \/ stop \/ Handlers
EngineSpec == Init /\ [][EngineNext]_vars

\* The same engine with the event loop's guarantee: a continuation that is
\* ready and a timer that is due are eventually run.
FairSpec == Init /\ [][EngineNext]_vars /\ WF_vars(Steps)

\* The engine with Store calls that can fail.
Faults ==
  \/ \E p \in BagToSet(procs), exits \in BOOLEAN : MonitorStoreFails(p, exits)
  \/ \E p \in BagToSet(procs) : MonitorUpdateFails(p)
  \/ \E p \in BagToSet(procs) : ProcessFails(p)
FaultNext == EngineNext \/ Faults
FaultSpec == Init /\ [][FaultNext]_vars

\* The engine with a start() that can fail while it registers its listeners.
StartFails == \E k \in 1..Len(EventNames) : startFails(k)
LifecycleNext == Chain \/ start \/ stop \/ StartFails \/ Listeners
LifecycleSpec == Init /\ [][LifecycleNext]_vars

\* The engine with the chain's clock passing the deadlines of the intents.
Clock == \E id \in IntentIds : DeadlinePasses(id)
ClockNext == EngineNext \/ Clock
ClockSpec == Init /\ [][ClockNext]_vars

\* The engine's WinningTicketDetected listener at work while the Store is
\* written to by its other users.
WinningAmounts == {<<1>>, <<100, 0, 0, 0, 0, 50, 7>>}
Tickets ==
  \/ \E ticketId \in TicketIds, amount \in WinningAmounts :
        OnWinningTicketDetected(ticketId, amount)
  \/ \E p \in BagToSet(procs), syndicateAddress \in {ZeroAddress, "0x5yndicate"},
        throws \in BOOLEAN : ProcessWinningTicket(p, syndicateAddress, throws)
\* The OffChainProcessor process, however it is launched, and the chain.
Launch ==
  \/ \E env \in SUBSET RequiredEnvVars : startIntentProcessor(env)
  \/ \E env \in SUBSET RequiredEnvVars, throws \in BOOLEAN : runOffChainProcessor(env, throws)
OffHandlers ==
  \/ \E e \in pending, again \in BOOLEAN : OffOnIntentSubmitted(e, again)
  \/ \E p \in BagToSet(procs) : OffProcessExecutedIntents(p)
  \/ \E e \in pending, again \in BOOLEAN, depositStatus \in {"completed", "in_progress"} :
        OffOnCrossChainOperationInitiated(e, again, depositStatus)
  \/ \E t \in BagToSet(timers), depositStatus \in {"completed", "in_progress"} :
        OffTimerFires(t, depositStatus)
  \/ \E id \in IntentIds : manuallyResolveIntent(id)
OffChainNext == Chain \/ Launch \/ OffHandlers \/ sigint
OffChainSpec == Init /\ [][OffChainNext]_vars

\* The Store under its own operations and the API's status updates.
StoreOps ==
  \/ \E id \in IntentIds : createIntent(id)
  \/ \E id \in IntentIds, chainId \in {LENS_CHAIN_ID, BASE_CHAIN_ID} :
        createTransaction(id, chainId)
StoreNext == StoreOps \/ Api
StoreSpec == Init /\ [][StoreNext]_vars

TicketNext == start \/ stop \/ StoreOps \/ Api \/ Tickets
TicketSpec == Init /\ [][TicketNext]_vars

\* The engine and an administrator who fails intents through the API.
Override == \E id \in IntentIds : updateIntent(id, "FAILED")
OverrideNext == EngineNext \/ Override
OverrideSpec == Init /\ [][OverrideNext]_vars

\* The HTTP API of the intents, behind its middleware.
Routes ==
  \/ \E authHeader \in Authorizations, body \in IntentBodies, id \in IntentIds,
        throws \in BOOLEAN : postIntents(authHeader, body, id, throws)
  \/ \E authHeader \in Authorizations, id \in IntentIds,
        status \in IntentStatuses \cup {"UNKNOWN"}, isAdmin \in BOOLEAN :
        putIntent(authHeader, id, status, isAdmin)
RouteSpec == Init /\ [][Routes]_vars

\* The authorization server answering verify-operation requests.
VerifyNext ==
  \/ \E sharedSecret \in PathSecrets, body \in Bodies : verifyOperation(sharedSecret, body)
  \/ \E sharedSecret \in PathSecrets, body \in Bodies, throws \in BOOLEAN :
        verifyOperationApprover(sharedSecret, body, throws)
VerifySpec == Init /\ [][VerifyNext]_vars

\* The whole system: the engine, restarts of its process, and the API server
\* that shares its Store.
Next == EngineNext \/ Restart \/ Api
Spec == Init /\ [][Next]_vars

\* ------------------------------------------------------------ observations
BridgeRows(id) ==
  { t \in 1..Len(transactions) :
      transactions[t].intentId = id /\ transactions[t].type = "BRIDGE" }
ActiveBridgeRows(id) == { t \in BridgeRows(id) : transactions[t].status # "FAILED" }
TimersOf(id) == CopiesIn(Timer(id, PollDelay), timers) + CopiesIn(Timer(id, BackoffDelay), timers)
InFlight(op, id) == \E p \in BagToSet(procs) : p.op = op /\ p.intentId = id
Delivered(name, id) == delivered[Event(name, id)]
IsCrossChain(id) == definition[id].sourceChainId # definition[id].destinationChainId
IsTerminal(status) == status \in {"COMPLETED", "FAILED"}

\* C2: every intent has at most one BRIDGE Transaction row that is not FAILED.
C2_AtMostOneActiveBridge ==
  \A id \in IntentIds : Cardinality(ActiveBridgeRows(id)) <= 1

\* C3: every intent has at most one outstanding bridge-poll timer.
C3_AtMostOneTimer ==
  \A id \in IntentIds : TimersOf(id) <= 1

\* C1: once the IntentSubmitted event of an intent has been delivered twice and
\* both processLensChainIntent invocations have ended, the Store holds exactly
\* one Intent row for it (the table cannot hold two: intent_id is unique).
C1_OneRowAfterTwoDeliveries ==
  \A id \in IntentIds :
    (Delivered("IntentSubmitted", id) >= 2 /\ ~InFlight("processLensChainIntent", id))
      => HasIntent(id)

\* C4: once an Intent's status is COMPLETED or FAILED no step changes it.
C4_TerminalStatusIsFinal ==
  [][\A id \in IntentIds :
       IsTerminal(intents[id].status) => intents'[id].status = intents[id].status]_vars

\* C5: a COMPLETED Intent whose source and destination chains differ has at
\* least one BRIDGE Transaction row.
C5_CompletedCrossChainHasBridge ==
  \A id \in IntentIds :
    (intents[id].status = "COMPLETED"
       /\ intents[id].sourceChainId # intents[id].destinationChainId)
      => BridgeRows(id) # {}

\* C6: after one IntentSubmitted and one CrossChainOperationInitiated delivery
\* for a cross-chain intent, the intent has a single BRIDGE Transaction row
\* from the first poll on: PENDING until the RELAYED poll, CONFIRMED after it.
C6_SingleBridgeRowInScenario ==
  \A id \in IntentIds :
    (IsCrossChain(id) /\ Delivered("IntentSubmitted", id) = 1
       /\ Delivered("CrossChainOperationInitiated", id) = 1)
      => Cardinality(BridgeRows(id)) <= 1

\* C7: for an intent being monitored, once the bridge reports RELAYED the
\* Intent eventually becomes COMPLETED with its BRIDGE Transactions CONFIRMED,
\* however many of the status queries fail before: a failed query is retried
\* after the backoff and the retries are never abandoned.
Polling(id) ==
  { p \in BagToSet(procs) :
      p.op = "monitorCrossChainOperation" /\ p.intentId = id /\ p.pc # "findOne" }
Monitored(id) ==
  /\ HasIntent(id)
  /\ ~InFlight("processLensChainIntent", id)
  /\ Event("CrossChainOperationInitiated", id) \notin pending
  /\ TimersOf(id) > 0 \/ Polling(id) # {}
  /\ \A p \in Polling(id) : p.snap = intents[id].status
PollsNeeded == BagCardinality(timers) + (MaxErrors - budget.errors)
Done(id) ==
  /\ intents[id].status = "COMPLETED"
  /\ BridgeRows(id) # {}
  /\ \A t \in BridgeRows(id) : transactions[t].status = "CONFIRMED"
C8_SameChainStaysPending ==
  \A id \in IntentIds :
    (~IsCrossChain(id) /\ Delivered("IntentSubmitted", id) >= 1
       /\ ~InFlight("processLensChainIntent", id))
      => /\ HasIntent(id)
         /\ intents[id].status = "PENDING"
         /\ \A t \in 1..Len(transactions) : transactions[t].intentId # id

\* C9: the step of monitorCrossChainOperation that finds no Intent row for its
\* intentId ends the invocation and changes neither table nor the timers.
C9_UnknownIntentChangesNothing ==
  [][\A p \in BagToSet(procs) :
       (/\ p.op = "monitorCrossChainOperation" /\ p.pc = "findOne"
        /\ ~HasIntent(p.intentId)
        /\ CopiesIn(p, procs') < CopiesIn(p, procs))
         => /\ procs' = procs (-) SetToBag({p})
            /\ UNCHANGED <<intents, transactions, timers>>]_vars

\* C9 witness: CrossChainOperationInitiated was handled for an intent that has
\* no row, and nothing was fabricated or scheduled.
C9_Witness ==
  \E id \in IntentIds :
    /\ Delivered("CrossChainOperationInitiated", id) >= 1
    /\ ~InFlight("monitorCrossChainOperation", id)
    /\ ~HasIntent(id)
    /\ transactions = <<>> /\ timers = EmptyBag

\* C10: a running engine polls the bridge for every intent the Store holds as
\* EXECUTING with a PENDING BRIDGE Transaction, also after a restart.
C10_PendingBridgeIsPolled ==
  \A id \in IntentIds :
    (/\ isRunning
     /\ intents[id].status = "EXECUTING"
     /\ \E t \in BridgeRows(id) : transactions[t].status = "PENDING")
      => \/ TimersOf(id) > 0
         \/ InFlight("monitorCrossChainOperation", id)
         \/ Event("CrossChainOperationInitiated", id) \in pending

\* C11: no error raised by a handler invocation escapes uncaught, whether the
\* invocation was started by an event listener or by a poll timer.
C11_NoErrorEscapes == ~uncaught

\* C12: once an IntentSubmitted event has been handled, the Store holds an
\* Intent row for its intentId, whatever the contract's executedIntents flag
\* was when the handler ran.
C12_HandledEventIsPersisted ==
  \A id \in IntentIds :
    (Delivered("IntentSubmitted", id) >= 1 /\ ~InFlight("processLensChainIntent", id))
      => HasIntent(id)

C14_DuplicateCreateFails ==
  [][\A p \in BagToSet(procs) :
       (/\ p.op = "processLensChainIntent" /\ p.pc = "create"
        /\ HasIntent(p.intentId)
        /\ CopiesIn(p, procs') < CopiesIn(p, procs))
         => /\ procs' = Retire(p)
            /\ UNCHANGED <<intents, transactions>>]_vars

\* C14 witness: two invocations reached the create of the same intent (it was
\* never executed, so neither was skipped), both have ended, the row is there.
C14_Witness ==
  \E id \in IntentIds :
    /\ Delivered("IntentSubmitted", id) >= 2 /\ ~executedIntents[id]
    /\ ~InFlight("processLensChainIntent", id)
    /\ intents[id].status = "EXECUTING"

\* C19: no bridge poll is scheduled for an intent whose deadline has passed.
C19_NoPollAfterDeadline ==
  [][\A id \in IntentIds : expired[id] => TimersOf(id)' <= TimersOf(id)]_vars

\* C15: db.Transaction.create for an intentId without an Intent row adds no
\* row, so every Transaction row references an existing Intent row.
C15_TransactionsReferenceIntents ==
  \A t \in 1..Len(transactions) : HasIntent(transactions[t].intentId)

\* C15 witness: Transaction rows were created while some intentId has no
\* Intent row, and none of them names it.
C15_Witness ==
  /\ Len(transactions) >= 1
  /\ \E id \in IntentIds : ~HasIntent(id)

\* C16: manuallyResolveIntent submits resolveIntent only for an intent whose
\* executedIntents flag is false when it submits.
C16_ResolveOnlyUnexecuted ==
  \A c \in resolveCalls : ~c.executed

\* C17: a processor that has registered its listeners was launched with every
\* required configuration value present.
C17_ListensOnlyWhenConfigured ==
  offchain.phase = "listening" => offchain.complete

\* C20: the OffChainProcessor stores what it handles: after an IntentSubmitted
\* event of a not executed intent an Intent row exists, and after a
\* CrossChainOperationInitiated event a Transaction row of the intent exists.
C20_OffChainProcessorPersists ==
  \A id \in IntentIds :
    /\ (/\ Delivered("IntentSubmitted", id) >= 1 /\ ~executedIntents[id]
        /\ ~InFlight("OffChainProcessor.processLensChainIntent", id))
         => HasIntent(id)
    /\ Delivered("CrossChainOperationInitiated", id) >= 1
         => \E t \in 1..Len(transactions) : transactions[t].intentId = id

Steps_(p) == CopiesIn(p, procs') < CopiesIn(p, procs)
AtPoll(p, pc) == p.op = "monitorCrossChainOperation" /\ p.pc = pc

\* C22: an invocation whose bridge poll returned RELAYED sets the BRIDGE
\* Transactions of its intent to CONFIRMED and every other Transaction row stays
\* as it is, then sets its Intent to COMPLETED, and schedules no poll.
C22_RelayedConfirmsThenCompletes ==
  [][\A p \in BagToSet(procs) :
       /\ (AtPoll(p, "getDepositStatus") /\ Steps_(p) /\ budget' = budget
           /\ relayed[p.intentId] = "RELAYED")
            => /\ procs' = Move(p, [p EXCEPT !.pc = "confirm"])
               /\ UNCHANGED <<timers, intents, transactions>>
       /\ (AtPoll(p, "confirm") /\ Steps_(p))
            => /\ procs' = Move(p, [p EXCEPT !.pc = "complete"])
               /\ Len(transactions') = Len(transactions)
               /\ \A t \in 1..Len(transactions) :
                    IF t \in BridgeRows(p.intentId)
                    THEN transactions'[t] = [transactions[t] EXCEPT !.status = "CONFIRMED"]
                    ELSE transactions'[t] = transactions[t]
               /\ UNCHANGED <<timers, intents>>
       /\ (AtPoll(p, "complete") /\ Steps_(p))
            => /\ procs' = Retire(p)
               /\ intents'[p.intentId].status = "COMPLETED"
               /\ UNCHANGED <<timers, transactions>>]_vars

\* C23: a bridge-status query that returns anything but RELAYED ends the
\* invocation with exactly one timer added, for the same intentId and of 60 s
\* whatever the number of polls made before, and with the Store as it was.
C23_InProgressReschedulesAfterPollDelay ==
  [][\A p \in BagToSet(procs) :
       (AtPoll(p, "getDepositStatus") /\ Steps_(p) /\ budget' = budget
        /\ relayed[p.intentId] # "RELAYED")
         => /\ procs' = Retire(p)
            /\ timers' = timers (+) SetToBag({Timer(p.intentId, PollDelay)})
            /\ UNCHANGED <<intents, transactions>>]_vars

\* C23 witness: the second poll of an intent found the deposit not relayed,
\* no query failed, and the one timer of the intent is a 60 s timer.
C23_Witness ==
  \E id \in IntentIds :
    /\ relayed[id] = "PENDING" /\ budget.polls >= 2 /\ budget.errors = 0
    /\ Delivered("CrossChainOperationInitiated", id) = 1
    /\ ~InFlight("monitorCrossChainOperation", id)
    /\ timers = SetToBag({Timer(id, PollDelay)})

\* C24: a bridge-status query that throws ends the invocation with exactly one
\* timer added, for the same intentId and of 300 s, with the Store as it was
\* and without an error reaching the caller (the engine keeps running).
C24_FailedQueryReschedulesAfterBackoff ==
  [][\A p \in BagToSet(procs) :
       (AtPoll(p, "getDepositStatus") /\ Steps_(p) /\ budget'.errors = budget.errors + 1)
         => /\ procs' = Retire(p)
            /\ timers' = timers (+) SetToBag({Timer(p.intentId, BackoffDelay)})
            /\ UNCHANGED <<response, intents, transactions, uncaught, engineVars>>]_vars

\* C24 witness: a query failed and its invocation left the one 300 s timer.
C24_Witness ==
  \E id \in IntentIds :
    /\ budget.errors >= 1
    /\ ~InFlight("monitorCrossChainOperation", id)
    /\ timers = SetToBag({Timer(id, BackoffDelay)})
    /\ intents[id].status = "EXECUTING" /\ ~uncaught /\ isRunning

\* The invocation p ends in this step: it leaves the bag and nothing takes
\* its place.
Ends(p) == Steps_(p) /\ BagCardinality(procs') < BagCardinality(procs)

C26_PollsWithoutBound ==
  /\ [](\A id \in IntentIds : relayed[id] # "RELAYED" => ~IsTerminal(intents[id].status))
  /\ [][\A p \in BagToSet(procs) :
          (AtPoll(p, "getDepositStatus") /\ Steps_(p) /\ relayed[p.intentId] # "RELAYED")
            => TimersOf(p.intentId)' = TimersOf(p.intentId) + 1]_vars

\* C26 witness: every poll the bounds allow has been made for an intent whose
\* deposit is not relayed; the Intent is EXECUTING and a further poll is set.
C26_Witness ==
  \E id \in IntentIds :
    /\ budget.polls = MaxPolls /\ relayed[id] = "PENDING"
    /\ Delivered("CrossChainOperationInitiated", id) = 1
    /\ ~InFlight("monitorCrossChainOperation", id)
    /\ intents[id].status = "EXECUTING" /\ TimersOf(id) = 1

\* C27: handling a WinningTicketDetected event, from its delivery to the end
\* of processWinningTicket, whatever the registry answers, leaves the Intent
\* rows, the Transaction rows and the poll timers as they are.
C27_WinningTicketChangesNothing ==
  [][(\/ budget'.tickets # budget.tickets
      \/ \E p \in BagToSet(procs) : p.op = "processWinningTicket" /\ Steps_(p))
       => UNCHANGED <<intents, transactions, timers>>]_vars

\* C27 witness: two winning tickets were handled to the end while the Store
\* held an Intent row and a Transaction row.
C27_Witness ==
  /\ budget.tickets >= 2
  /\ \A p \in BagToSet(procs) : p.op # "processWinningTicket"
  /\ \E id \in IntentIds : HasIntent(id) /\ BridgeRows(id) # {}

\* C28: a step that makes an Intent FAILED is no step of the engine: it
\* delivers no event, runs no handler, fires and sets no timer and writes no
\* Transaction; it is the status update of the API.
C28_FailedOnlyByOverride ==
  [][\A id \in IntentIds :
       (intents[id].status # "FAILED" /\ intents'[id].status = "FAILED")
         => UNCHANGED <<procs, timers, pending, delivered, budget, transactions,
                        engineVars, chainVars>>]_vars

\* C28 witness: an intent was polled with every kind of result (a query that
\* threw, a deposit not relayed, a relayed one), completed, and was then set
\* to FAILED; nothing of the engine is left for it.
C28_Witness ==
  \E id \in IntentIds :
    /\ intents[id].status = "FAILED"
    /\ budget.errors >= 1 /\ budget.polls >= 2 /\ relayed[id] = "RELAYED"
    /\ \A t \in BridgeRows(id) : transactions[t].status = "CONFIRMED"
    /\ BridgeRows(id) # {}

\* C29: when the IntentSubmitted handler of an intent has been started (the
\* contract emits IntentSubmitted before CrossChainOperationInitiated, always),
\* the CrossChainOperationInitiated handler finds the Intent row at its
\* db.Intent.findOne.
C29_MonitorFindsSubmittedIntent ==
  [][\A p \in BagToSet(procs) :
       (/\ AtPoll(p, "findOne") /\ p.caught /\ Steps_(p)
        /\ Delivered("IntentSubmitted", p.intentId) >= 1)
         => HasIntent(p.intentId)]_vars

\* C30: every change the engine makes to an Intent's status is one of: the row
\* is created PENDING, PENDING becomes EXECUTING, EXECUTING becomes COMPLETED.
C30_StatusMovesForward ==
  [][\A id \in IntentIds :
       intents'[id].status # intents[id].status
         => <<intents[id].status, intents'[id].status>> \in
              {<<"-", "PENDING">>, <<"PENDING", "EXECUTING">>, <<"EXECUTING", "COMPLETED">>}]_vars

\* C21: verify-operation answers with a signature only when the path secret is
\* the configured one and the body has all five fields; a wrong secret is
\* answered 401 and a missing field allowed: false, both without a signature.
C21_SignsOnlyAuthorizedCompleteRequests ==
  response # NoResponse =>
    /\ response.signature # NoSignature
         => response.sharedSecret = SHARED_SECRET /\ response.absent = {}
    /\ response.sharedSecret # SHARED_SECRET
         => response.status = 401 /\ response.signature = NoSignature
    /\ (response.sharedSecret = SHARED_SECRET /\ response.absent # {})
         => ~response.allowed /\ response.signature = NoSignature
    /\ response.allowed <=> response.signature # NoSignature

\* C21 witness: a request with the right secret and a complete body was
\* answered with the signature of its SourceStamp.
C21_Witness ==
  /\ response.sharedSecret = SHARED_SECRET
  /\ response.status = 200 /\ response.allowed
  /\ response.signature # NoSignature
  /\ response.signature.originalMsgSender = AnAddress.v
  /\ response.absent = {}

\* C31: an Intent with status COMPLETED has no BRIDGE Transaction row with
\* status PENDING.
C31_CompletedHasNoPendingBridge ==
  \A id \in IntentIds :
    intents[id].status = "COMPLETED"
      => \A t \in BridgeRows(id) : transactions[t].status # "PENDING"


\* C32: start() on a running processor registers nothing, and after any
\* sequence of start() and stop() calls each of the three events has at most
\* one registered handler, so a delivered event starts at most one handler
\* invocation.
C32_AtMostOneHandlerPerEvent ==
  \A k \in 1..Len(EventNames) : Registered(EventNames[k]) <= 1

\* C33: isRunning is false exactly when no listener is registered and
\* activeListeners is empty, a start() that failed part-way included.
C33_RunningIffListening ==
  ~isRunning <=> activeListeners = <<>>

\* C34: once stop() has completed the processor writes nothing to the Store
\* and queries the bridge no more, an outstanding poll timer notwithstanding.
C34_StoppedEngineIsQuiet ==
  [][~isRunning =>
       /\ storeVars' = storeVars
       /\ ~\E p \in BagToSet(procs), throws \in BOOLEAN : MonitorGetDepositStatus(p, throws)
    ]_vars

\* C35: the submitIntent call either stores exactly one Intent row with
\* status PENDING and answers 201 with that row's intentId and status, or
\* stores nothing: a body lacking a required field is answered 400, a failed
\* Store write 500, the Store unchanged in both cases.
C35_SubmitStoresOneRowOrNone ==
  [][response'.impl = "submitIntent" =>
       IF response'.absent # {}
       THEN response'.status = 400 /\ storeVars' = storeVars
       ELSE \/ /\ response'.status = 201 /\ response'.intentStatus = "PENDING"
               /\ ~HasIntent(response'.intentId)
               /\ intents'[response'.intentId].status = "PENDING"
               /\ \A other \in IntentIds \ {response'.intentId} :
                     intents'[other] = intents[other]
               /\ transactions' = transactions
            \/ /\ response'.status = 500
               /\ storeVars' = storeVars
    ]_vars

C35_Witness ==
  /\ response.impl = "submitIntent" /\ response.status = 201
  /\ intents[response.intentId].status = "PENDING"
  /\ \E other \in IntentIds : ~HasIntent(other)

C37_ExecutedAtMostOnce ==
  [][\A id \in IntentIds :
       executedIntents[id] =>
         /\ executedIntents'[id]
         /\ relayed'[id] # relayed[id] => relayed[id] = "PENDING" /\ relayed'[id] = "RELAYED"
         /\ Event("CrossChainOperationInitiated", id) \notin pending' \ pending
         /\ \A depositOk \in BOOLEAN : ~executeIntent(id, depositOk)
    ]_vars

C37_Witness ==
  /\ executedIntents["0xa"] /\ relayed["0xa"] = "RELAYED"
  /\ \E c \in resolveCalls : c.intentId = "0xa" /\ c.executed

\* C38: resolveIntent of an intent that is not executed, with a signature
\* that is not empty, executes the intent (as submitIntent does with an
\* intent it can execute immediately): the reentrancy guard reverts neither.
C38_ResolveIntentExecutes ==
  [][\A id \in IntentIds :
       (manuallyResolveIntent(id) /\ ~executedIntents[id]) => executedIntents'[id]
    ]_vars

\* C39: an intentId is submitted once: after an IntentSubmitted for it has
\* been emitted and delivered, a second submitIntent for it reverts, executed
\* or not, so no further IntentSubmitted is emitted for it.
C39_SubmittedAtMostOnce ==
  [][\A id \in IntentIds :
       delivered[Event("IntentSubmitted", id)] > 0
         => Event("IntentSubmitted", id) \notin pending' \ pending
    ]_vars
====
